---- MODULE Spec2Model ----
(***************************************************************************)
(* The jjui toggle controller of jjui-vscode as a state machine.           *)
(*                                                                         *)
(* The repository holds two versions of the extension: src/src/extension.ts *)
(* (createWindow sends the command line as text and re-focuses once after  *)
(* a fixed 100 ms delay, guarded by an assert on the executable path) and  *)
(* src/unnamed/part_000 (createWindow passes the command line as shell     *)
(* arguments and polls for focus, with no assert).  The variable `variant` *)
(* says which of the two runs; everything else is common to both.          *)
(*                                                                         *)
(* The state is what the extension host process sees: the module globals   *)
(* of the extension, the host's mirrored window state (active terminal,    *)
(* active text editor, tabs), the pending timers, and the toggle           *)
(* invocations suspended in the executable lookup.  Each action is one run *)
(* of a callback on the single-threaded event queue, from its start to its *)
(* first real suspension point (or its end).                               *)
(***************************************************************************)
EXTENDS Integers, Sequences, FiniteSets, TLC

\* ---------------------------------------------------------------- bounds

\* Terminals the controller may create in one behaviour.
MaxTerminals == 2
\* Pending 200 ms editor-focus timers of onHide.
MaxHideTimers == 2
\* Workspace folders open in the host.
MaxFolders == 2

\* ------------------------------------------------------------- constants

\* part_000: `if (focusAttempts < 10)`.
MaxFocusAttempts == 10

\* `undefined` as the value of a terminal reference.
None == 0
\* A terminal of the host that the controller did not create.
Foreign == MaxTerminals + 1
OwnIds == 1..MaxTerminals

\* Working directories: a workspace folder is its position in the list.
HomeDir == 0
\* No terminal was created yet.
NoCwd == -1
\* getWorkspaceFolder threw (a property read on undefined).
Throws == -2

Variants == {"fixed", "poll"}
Behaviors == {"keep", "hide", "hideRestore"}
\* The path `which jjui` prints when jjui is installed.
ExecPath == "/usr/bin/jjui"
\* Values of the jjuiPath setting: unset, a plain path, and a path made of
\* one environment variable that is not set.
Paths == {"", "/opt/jjui", "$UNSET"}

Settings ==
    [jjuiPath : Paths, autoMaximizeWindow : BOOLEAN,
     sidebar : Behaviors, panel : Behaviors, secondarySidebar : Behaviors]

VARIABLES
    variant,          \* which version of the extension runs
    execOnPath,       \* whether `which jjui` succeeds
    settings,         \* the host's live "jjui-vscode" settings
    globalConfig,     \* the cached configuration, jjuiPath resolved
    globalConfigJSON, \* the serialized form of the settings last loaded
    jjuiTerminal,     \* the session handle
    termState,        \* per controller-made terminal: none/open/disposed/closed
    foreignOpen,      \* whether the host's other terminal is open
    activeTerminal,   \* vscode.window.activeTerminal
    activeTextEditor, \* whether vscode.window.activeTextEditor is defined
    otherTabs,        \* whether a tab other than the controller's terminals is open
    visible,          \* host visibility of sidebar, panel, secondarySidebar
    contextFlag,      \* the published jjuiFocus context value
    closeListeners,   \* registered onDidCloseTerminal listeners
    focusAttempts,    \* per creation: focus re-assertions issued by its retry
    focusTimer,       \* per creation: whether its retry timer is pending
    hideTimers,       \* pending 200 ms timers of onHide
    suspendedCurrent, \* a toggle awaits the lookup started for the current globalConfig object
    suspendedStale,   \* toggles awaiting a lookup whose globalConfig object was replaced
    issued,           \* host commands and terminal calls issued by the last step
    lastOp,           \* the callback that ran last
    visible0,         \* the visibility at activation
    activeNotebook,   \* whether vscode.window.activeNotebookEditor is defined
    docFolder,        \* the workspace folder that holds the active document, 0 if none does
    workspaceFolders, \* vscode.workspace.workspaceFolders
    cwd,              \* the working directory of the terminal created last
    phase             \* start -> shown -> hidden or disposed; "other" once the toggles leave that pattern

vars ==
    <<variant, execOnPath, settings, globalConfig, globalConfigJSON, jjuiTerminal,
      termState, foreignOpen, activeTerminal, activeTextEditor, otherTabs, visible,
      contextFlag, closeListeners, focusAttempts, focusTimer, hideTimers,
      suspendedCurrent, suspendedStale, issued, lastOp, visible0, activeNotebook,
      docFolder, workspaceFolders, cwd, phase>>

\* The environment the controller does not write.
envVars == <<variant, execOnPath, visible0, activeNotebook, docFolder, workspaceFolders>>
hostFocusVars == <<activeTerminal, activeTextEditor, otherTabs, foreignOpen>>
configVars == <<settings, globalConfig, globalConfigJSON>>
timerVars == <<focusAttempts, focusTimer, hideTimers>>
suspendVars == <<suspendedCurrent, suspendedStale>>

\* ------------------------------------------------------------ pure parts

\* loadConfig: the live settings as a JJUIConfig.
LoadConfig(s) == s

\* expandPath: a reference to an unset variable expands to the empty string.
ExpandPath(p) == IF p = "$UNSET" THEN "" ELSE p

\* windowFocused(): no text editor is active and the active terminal is the handle.
WindowFocusedMutant(editor, active, handle) == active = handle
WindowFocusedAnyTerminal(editor, active, handle) == editor = FALSE /\ active # None
WindowFocused(editor, active, handle) == editor = FALSE /\ active = handle

\* The tabs of the host: the other tabs plus one per controller-made terminal
\* that the host has not yet reported closed.
TerminalTabs(ts) == {t \in OwnIds : ts[t] \in {"open", "disposed"}}
OnlyOneTab(ts, others) == ~others /\ Cardinality(TerminalTabs(ts)) = 1

\* closeWindow(): dispose when one tab is open, else ask for the previous editor.
CloseWindowCmdsMutant(ts, others, handle) == <<"dispose">>
CloseWindowCmds(ts, others, handle) ==
    IF OnlyOneTab(ts, others) /\ handle # None
    THEN <<"dispose">>
    ELSE <<"openPreviousRecentlyUsedEditorInGroup">>

shouldKeep(b) == b = "keep"
shouldHide(b) == b = "hide" \/ b = "hideRestore"
shouldRestore(b) == b = "hideRestore"

\* onShown(): the commands it issues, in order.
OnShownCmdsMutant(cfg) ==
    (IF cfg.autoMaximizeWindow
     THEN <<"maximizeEditorHideSidebar">>
          \o (IF shouldKeep(cfg.sidebar) THEN <<"toggleSidebarVisibility">> ELSE <<>>)
     ELSE (IF cfg.sidebar = "hide" THEN <<"closeSidebar">> ELSE <<>>)
          \o (IF cfg.secondarySidebar = "hide" THEN <<"closeAuxiliaryBar">> ELSE <<>>))
    \o (IF cfg.panel = "hide" THEN <<"closePanel">> ELSE <<>>)
OnShownCmdsKeepsPanel(cfg) ==
    IF cfg.autoMaximizeWindow
    THEN <<"maximizeEditorHideSidebar">>
         \o (IF shouldKeep(cfg.sidebar) THEN <<"toggleSidebarVisibility">> ELSE <<>>)
    ELSE (IF shouldHide(cfg.sidebar) THEN <<"closeSidebar">> ELSE <<>>)
         \o (IF shouldHide(cfg.secondarySidebar) THEN <<"closeAuxiliaryBar">> ELSE <<>>)
         \o (IF shouldHide(cfg.panel) THEN <<"closePanel">> ELSE <<>>)
OnShownCmds(cfg) ==
    (IF cfg.autoMaximizeWindow
     THEN <<"maximizeEditorHideSidebar">>
          \o (IF shouldKeep(cfg.sidebar) THEN <<"toggleSidebarVisibility">> ELSE <<>>)
     ELSE (IF shouldHide(cfg.sidebar) THEN <<"closeSidebar">> ELSE <<>>)
          \o (IF shouldHide(cfg.secondarySidebar) THEN <<"closeAuxiliaryBar">> ELSE <<>>))
    \o (IF shouldHide(cfg.panel) THEN <<"closePanel">> ELSE <<>>)

\* onHide(): the commands it issues at once, in order (its timer is apart).
OnHideCmdsMutant(cfg) == <<>>
OnHideCmds(cfg) ==
    (IF shouldRestore(cfg.secondarySidebar) THEN <<"toggleAuxiliaryBar">> ELSE <<>>)
    \o (IF shouldRestore(cfg.panel) THEN <<"togglePanel">> ELSE <<>>)
    \o (IF cfg.autoMaximizeWindow THEN <<"evenEditorWidths">> ELSE <<>>)

\* The host's answer to one workbench command, on the three elements.
ApplyCmd(v, c) ==
    CASE c = "maximizeEditorHideSidebar" -> [v EXCEPT !.sidebar = FALSE]
      [] c = "toggleSidebarVisibility"   -> [v EXCEPT !.sidebar = ~@]
      [] c = "closeSidebar"              -> [v EXCEPT !.sidebar = FALSE]
      [] c = "closeAuxiliaryBar"         -> [v EXCEPT !.secondarySidebar = FALSE]
      [] c = "closePanel"                -> [v EXCEPT !.panel = FALSE]
      [] c = "toggleAuxiliaryBar"        -> [v EXCEPT !.secondarySidebar = ~@]
      [] c = "togglePanel"               -> [v EXCEPT !.panel = ~@]
      [] OTHER                           -> v

RECURSIVE ApplyCmds(_, _)
ApplyCmds(v, cs) ==
    IF cs = <<>> THEN v ELSE ApplyCmds(ApplyCmd(v, Head(cs)), Tail(cs))

RECURSIVE Repeat(_, _)
Repeat(cs, n) == IF n = 0 THEN <<>> ELSE cs \o Repeat(cs, n - 1)

Count(cs, c) == Cardinality({i \in 1..Len(cs) : cs[i] = c})

\* One onDidCloseTerminal listener of createWindow, run on terminal t with the
\* handle as it stands: <<the handle after, the runs of onHide it made>>.
CloseListenerMutant(t, handle) == IF t = handle THEN <<handle, 1>> ELSE <<handle, 0>>
CloseListener(t, handle) == IF t = handle THEN <<None, 1>> ELSE <<handle, 0>>

\* Every registered listener in turn (none is ever disposed).
RECURSIVE RunCloseListeners(_, _, _, _)
RunCloseListeners(n, t, handle, runs) ==
    IF n = 0 THEN <<handle, runs>>
    ELSE LET r == CloseListener(t, handle)
         IN RunCloseListeners(n - 1, t, r[1], runs + r[2])

\* extension.ts, the 100 ms timer of createWindow: show and focus the current
\* session if there is one.  <<whether it issues the focus request, the
\* attempts after, whether a timer is pending after>>.
FixedRefocus(active, handle, attempts) ==
    IF handle # None THEN <<TRUE, attempts + 1, FALSE>> ELSE <<FALSE, attempts, FALSE>>

\* part_000, pollFocus: stop when the active terminal is the current handle
\* or after MaxFocusAttempts requests, else request the focus and come back.
PollFocusMutant(active, handle, attempts) ==
    IF active = handle THEN <<FALSE, attempts, FALSE>> ELSE <<TRUE, attempts + 1, TRUE>>
PollFocus(active, handle, attempts) ==
    IF active = handle THEN <<FALSE, attempts, FALSE>>
    ELSE IF attempts < MaxFocusAttempts THEN <<TRUE, attempts + 1, TRUE>>
    ELSE <<FALSE, attempts, FALSE>>

\* The first folder of the list that holds the marker directory .jj, 0 if
\* none does.
FirstMarked(jj) ==
    IF \E i \in 1..Len(jj) : jj[i]
    THEN CHOOSE i \in 1..Len(jj) : jj[i] /\ \A j \in 1..(i - 1) : ~jj[j]
    ELSE 0

\* getWorkspaceFolder() of version v, with `text` and `notebook` saying which
\* editor is active, `folder` the workspace folder
\* vscode.workspace.getWorkspaceFolder finds for the active document (0 for
\* undefined) and ws the workspace folders (open = FALSE for undefined).
GetWorkspaceFolder(v, text, notebook, folder, ws) ==
    IF v = "fixed"
    THEN \* extension.ts: only the text editor counts; a document outside
         \* every folder gives the home directory; no marker search.
         IF text THEN (IF folder # 0 THEN folder ELSE HomeDir)
         ELSE IF ws.open /\ Len(ws.jj) > 0 THEN 1 ELSE HomeDir
    ELSE \* part_000
         IF (text \/ notebook) /\ folder # 0 THEN folder
         ELSE IF ws.open
              THEN IF FirstMarked(ws.jj) # 0 THEN FirstMarked(ws.jj)
                   ELSE IF Len(ws.jj) > 0 THEN 1
                   ELSE Throws \* folders[0].uri with folders = []
              ELSE HomeDir

\* The terminal createTerminal returns next.
FreeIds == {t \in OwnIds : termState[t] = "none"}
NewId == CHOOSE t \in FreeIds : \A u \in FreeIds : t <= u

Suspended == suspendedStale + (IF suspendedCurrent THEN 1 ELSE 0)

\* ------------------------------------------------------------------ Init

\* The state when activate() has returned: loadExtension has run to its end
\* (activate awaits it before it registers the command), no session exists.
InitWith(S) ==
    /\ variant \in Variants
    /\ execOnPath \in BOOLEAN
    /\ settings \in S
    /\ globalConfigJSON = LoadConfig(settings)
    /\ globalConfig =
         [LoadConfig(settings) EXCEPT !.jjuiPath =
            IF @ # "" THEN ExpandPath(@) ELSE IF execOnPath THEN ExecPath ELSE ""]
    /\ jjuiTerminal = None
    /\ termState = [t \in OwnIds |-> "none"]
    /\ foreignOpen \in BOOLEAN
    /\ activeTerminal = (IF foreignOpen THEN Foreign ELSE None)
    /\ otherTabs \in BOOLEAN
    /\ activeTextEditor \in (IF otherTabs THEN BOOLEAN ELSE {FALSE})
    /\ visible \in [sidebar : BOOLEAN, panel : BOOLEAN, secondarySidebar : BOOLEAN]
    /\ visible0 = visible
    /\ contextFlag = FALSE
    /\ closeListeners = 0
    /\ cwd = NoCwd
    /\ focusAttempts = [t \in OwnIds |-> 0]
    /\ focusTimer = [t \in OwnIds |-> FALSE]
    /\ hideTimers = 0
    /\ suspendedCurrent = FALSE
    /\ suspendedStale = 0
    /\ issued = (IF settings.jjuiPath = "" /\ ~execOnPath
                 THEN <<"showErrorMessage">> ELSE <<>>)
    /\ lastOp = "activate"
    /\ phase = "start"

\* ------------------------------------------------------ session creation

\* getWorkspaceFolder() of the host's state as it stands.
CurrentFolder ==
    GetWorkspaceFolder(variant, activeTextEditor, activeNotebook, docFolder,
                       workspaceFolders)

\* createWindow() from the line after `await reloadIfConfigChange()` to its
\* end, then the onShown() of toggleJJUI, with gc the configuration object
\* that globalConfig names at that point and `pre` what the step issued so far.
\* getWorkspaceFolder() comes first and may throw; the "fixed" version then
\* asserts the executable path and throws without it; toggleJJUI ends at
\* either exception.  `reserved` terminals are left for the toggles still
\* suspended (a bound of the model).
CreateWindowRest(gc, pre, op, reserved) ==
    IF CurrentFolder = Throws \/ (variant = "fixed" /\ gc.jjuiPath = "")
    THEN /\ globalConfig' = gc
         /\ issued' = pre
         /\ lastOp' = op \o "Assert"
         /\ phase' = "other"
         /\ UNCHANGED <<jjuiTerminal, termState, closeListeners, cwd, focusAttempts,
                        focusTimer, visible>>
    ELSE /\ Cardinality(FreeIds) > reserved
         /\ LET t == NewId
                \* part_000: the first pollFocus() runs inside createWindow.
                poll == PollFocus(activeTerminal, t, 0)
                first == variant = "poll" /\ poll[1]
                cmds == pre
                        \o (IF variant = "fixed"
                            THEN <<"createTerminal", "sendText", "show">>
                            ELSE <<"createTerminal", "show">>
                                 \o (IF first THEN <<"terminal.focus">> ELSE <<>>))
                        \o OnShownCmds(gc)
            IN /\ globalConfig' = gc
               /\ jjuiTerminal' = t
               /\ termState' = [termState EXCEPT ![t] = "open"]
               /\ closeListeners' = closeListeners + 1
               /\ cwd' = CurrentFolder
               /\ focusAttempts' = [focusAttempts EXCEPT ![t] =
                                       IF variant = "poll" THEN poll[2] ELSE 0]
               /\ focusTimer' = [focusTimer EXCEPT ![t] = variant = "fixed" \/ poll[3]]
               /\ visible' = ApplyCmds(visible, cmds)
               /\ issued' = cmds
               /\ lastOp' = op \o "Create"
               /\ phase' = (IF phase = "start" /\ reserved = 0 THEN "shown" ELSE "other")

\* toggleJJUI with no session: createWindow, and in it reloadIfConfigChange.
\* With the settings unchanged, or changed to a configured path, nothing in
\* the awaits waits for an event and the toggle runs to its end.
ToggleCreate ==
    /\ jjuiTerminal = None
    /\ IF LoadConfig(settings) = globalConfigJSON
       THEN /\ CreateWindowRest(globalConfig, <<>>, "toggle", Suspended)
            /\ UNCHANGED <<globalConfigJSON, suspendVars>>
       ELSE /\ LoadConfig(settings).jjuiPath # ""
            /\ globalConfigJSON' = LoadConfig(settings)
            /\ CreateWindowRest(
                 [LoadConfig(settings) EXCEPT !.jjuiPath = ExpandPath(@)], <<>>, "toggle",
                 Suspended)
            \* loadExtension made a new globalConfig object: a lookup still
            \* pending will write its result to the old one.
            /\ suspendedCurrent' = FALSE
            /\ suspendedStale' = Suspended
    /\ UNCHANGED <<envVars, settings, hostFocusVars, contextFlag, hideTimers>>

\* toggleJJUI with no session, the settings changed and no path configured:
\* loadExtension stores the new configuration and its serialized form, starts
\* `which jjui` and the toggle is suspended until that process ends.
ToggleSuspend ==
    /\ jjuiTerminal = None
    /\ LoadConfig(settings) # globalConfigJSON
    /\ LoadConfig(settings).jjuiPath = ""
    \* Bound: every suspended toggle has a terminal left to create.
    /\ Suspended < Cardinality(FreeIds)
    /\ globalConfig' = LoadConfig(settings)
    /\ globalConfigJSON' = LoadConfig(settings)
    /\ suspendedCurrent' = TRUE
    /\ suspendedStale' = Suspended
    /\ issued' = <<>>
    /\ lastOp' = "toggleSuspend"
    /\ phase' = (IF phase = "start" /\ Suspended = 0 THEN "start" ELSE "other")
    /\ UNCHANGED <<envVars, settings, hostFocusVars, contextFlag, timerVars, jjuiTerminal,
                   termState, closeListeners, cwd, visible>>

\* `which jjui` ends for a suspended toggle: loadExtension stores the path in
\* the configuration object it made (the current globalConfig or one since
\* replaced) or shows the error, and createWindow goes on with globalConfig
\* as it stands now, without looking at jjuiTerminal again.
LookupDone(current) ==
    /\ IF current THEN suspendedCurrent ELSE suspendedStale > 0
    /\ suspendedCurrent' = (IF current THEN FALSE ELSE suspendedCurrent)
    /\ suspendedStale' = (IF current THEN suspendedStale ELSE suspendedStale - 1)
    /\ CreateWindowRest(
         IF execOnPath /\ current
         THEN [globalConfig EXCEPT !.jjuiPath = ExecPath] ELSE globalConfig,
         IF execOnPath THEN <<>> ELSE <<"showErrorMessage">>,
         "resume", Suspended - 1)
    /\ UNCHANGED <<envVars, settings, globalConfigJSON, hostFocusVars, contextFlag,
                   hideTimers>>

\* ------------------------------------------------- toggle with a session

\* toggleJJUI, session present and focused: closeWindow() then onHide().
\* dispose() only asks the host to close the terminal: the handle stays until
\* the host reports the closure.
ToggleHide ==
    /\ jjuiTerminal # None
    /\ WindowFocused(activeTextEditor, activeTerminal, jjuiTerminal)
    /\ hideTimers < MaxHideTimers
    /\ LET close == CloseWindowCmds(termState, otherTabs, jjuiTerminal)
           cmds == close \o OnHideCmds(globalConfig)
       IN /\ termState' =
               (IF close = <<"dispose">> /\ termState[jjuiTerminal] = "open"
                THEN [termState EXCEPT ![jjuiTerminal] = "disposed"] ELSE termState)
          /\ visible' = ApplyCmds(visible, cmds)
          /\ issued' = cmds
          /\ phase' = (IF phase # "shown" THEN "other"
                       ELSE IF close = <<"dispose">> THEN "disposed" ELSE "hidden")
    /\ hideTimers' = hideTimers + 1
    /\ lastOp' = "toggleHide"
    /\ UNCHANGED <<envVars, configVars, hostFocusVars, contextFlag, suspendVars,
                   jjuiTerminal, closeListeners, cwd, focusAttempts, focusTimer>>

\* toggleJJUI, session present and not focused: focusWindow() then onShown().
ToggleFocus ==
    /\ jjuiTerminal # None
    /\ ~WindowFocused(activeTextEditor, activeTerminal, jjuiTerminal)
    /\ LET cmds == <<"show">> \o OnShownCmds(globalConfig)
       IN /\ visible' = ApplyCmds(visible, cmds)
          /\ issued' = cmds
    /\ lastOp' = "toggleFocus"
    /\ phase' = "other"
    /\ UNCHANGED <<envVars, configVars, hostFocusVars, contextFlag, suspendVars,
                   timerVars, jjuiTerminal, termState, closeListeners, cwd>>

\* ------------------------------------------------------ host notifications

\* updateFocusContext: publish windowFocused() of the state the callback sees.
UpdateFocusContext(editor, active) ==
    /\ contextFlag' = WindowFocused(editor, active, jjuiTerminal)
    /\ issued' = <<"setContext">>

\* The terminals the host can report as the active one: an open terminal, or
\* none when no terminal is open.
Activatable ==
    {t \in OwnIds : termState[t] = "open"}
    \cup (IF foreignOpen THEN {Foreign} ELSE {})
ActiveCandidates == IF Activatable = {} THEN {None} ELSE Activatable

\* onDidChangeActiveTerminal.
ActiveTerminalChanged(t) ==
    /\ t \in ActiveCandidates
    /\ t # activeTerminal
    /\ activeTerminal' = t
    /\ UpdateFocusContext(activeTextEditor, t)
    /\ lastOp' = "activeTerminalChanged"
    /\ UNCHANGED <<envVars, configVars, suspendVars, timerVars, jjuiTerminal, termState,
                   closeListeners, cwd, visible, phase, activeTextEditor, otherTabs,
                   foreignOpen>>

\* onDidChangeActiveTextEditor: a text editor becomes active (one of the other
\* tabs), or none is active any more.
ActiveEditorChanged ==
    /\ activeTextEditor \/ otherTabs
    /\ activeTextEditor' = ~activeTextEditor
    /\ UpdateFocusContext(~activeTextEditor, activeTerminal)
    /\ lastOp' = "activeEditorChanged"
    /\ UNCHANGED <<envVars, configVars, suspendVars, timerVars, jjuiTerminal, termState,
                   closeListeners, cwd, visible, phase, activeTerminal, otherTabs,
                   foreignOpen>>

\* onDidCloseTerminal for terminal t: the user closed it, its process ended
\* or the host finished a dispose().  Every listener registered so far runs.
TerminalClosed(t) ==
    /\ \/ t \in OwnIds /\ termState[t] \in {"open", "disposed"}
       \/ t = Foreign /\ foreignOpen
    /\ LET r == RunCloseListeners(closeListeners, t, jjuiTerminal, 0)
           cmds == Repeat(OnHideCmds(globalConfig), r[2])
       IN /\ hideTimers + r[2] <= MaxHideTimers
          /\ jjuiTerminal' = r[1]
          /\ hideTimers' = hideTimers + r[2]
          /\ visible' = ApplyCmds(visible, cmds)
          /\ issued' = cmds
    /\ termState' = (IF t = Foreign THEN termState ELSE [termState EXCEPT ![t] = "closed"])
    /\ foreignOpen' = (IF t = Foreign THEN FALSE ELSE foreignOpen)
    /\ lastOp' = "terminalClosed"
    /\ UNCHANGED <<envVars, configVars, suspendVars, focusAttempts, focusTimer,
                   closeListeners, cwd, contextFlag, phase, activeTerminal, activeTextEditor,
                   otherTabs>>

\* ------------------------------------------------------------------ timers

\* The focus retry timer of creation i fires.
FocusTimerFire(i) ==
    /\ focusTimer[i]
    /\ LET r == IF variant = "fixed"
                THEN FixedRefocus(activeTerminal, jjuiTerminal, focusAttempts[i])
                ELSE PollFocus(activeTerminal, jjuiTerminal, focusAttempts[i])
       IN /\ issued' = (IF ~r[1] THEN <<>>
                        ELSE IF variant = "fixed" THEN <<"show", "terminal.focus">>
                        ELSE <<"terminal.focus">>)
          /\ focusAttempts' = [focusAttempts EXCEPT ![i] = r[2]]
          /\ focusTimer' = [focusTimer EXCEPT ![i] = r[3]]
    /\ lastOp' = "focusTimer"
    /\ UNCHANGED <<envVars, configVars, hostFocusVars, suspendVars, hideTimers,
                   jjuiTerminal, termState, closeListeners, cwd, visible, contextFlag, phase>>

\* A 200 ms timer of onHide fires.
HideTimerFire ==
    /\ hideTimers > 0
    /\ hideTimers' = hideTimers - 1
    /\ issued' = <<"focusActiveEditorGroup">>
    /\ lastOp' = "hideTimer"
    /\ UNCHANGED <<envVars, configVars, hostFocusVars, suspendVars, focusAttempts,
                   focusTimer, jjuiTerminal, termState, closeListeners, cwd, visible,
                   contextFlag, phase>>

\* ------------------------------------------------------------- environment

\* The user edits the settings.
ConfigChanged(S) ==
    /\ settings' \in S \ {settings}
    /\ issued' = <<>>
    /\ lastOp' = "configChanged"
    /\ UNCHANGED <<envVars, globalConfig, globalConfigJSON, hostFocusVars, suspendVars,
                   timerVars, jjuiTerminal, termState, closeListeners, cwd, visible,
                   contextFlag, phase>>

\* The user opens a first other tab, or closes the last one (no text editor
\* is active by then).
TabsChanged ==
    /\ otherTabs => ~activeTextEditor
    /\ otherTabs' = ~otherTabs
    /\ issued' = <<>>
    /\ lastOp' = "tabsChanged"
    /\ UNCHANGED <<envVars, configVars, suspendVars, timerVars, jjuiTerminal, termState,
                   closeListeners, cwd, visible, contextFlag, phase, activeTerminal,
                   activeTextEditor, foreignOpen>>

\* ---------------------------------------------------------- specifications

\* The settings of the session specifications: the default panels with the
\* bottom panel on hideRestore (so that onShown and onHide both issue
\* commands), and every kind of jjuiPath.
CoreSettings ==
    {s \in Settings : /\ ~s.autoMaximizeWindow
                      /\ s.sidebar = "keep"
                      /\ s.panel = "hideRestore"
                      /\ s.secondarySidebar = "hide"}

\* The settings of the panel specification: every panel behaviour and both
\* values of auto-maximize, with a configured path.
PanelSettings == {s \in Settings : s.jjuiPath = "/opt/jjui"}

AllVisible == [sidebar |-> TRUE, panel |-> TRUE, secondarySidebar |-> TRUE]

\* The workspace of the session specifications: one folder without the
\* marker, which holds every document the user opens.
OneFolder ==
    /\ activeNotebook = FALSE
    /\ docFolder = 1
    /\ workspaceFolders = [open |-> TRUE, jj |-> <<FALSE>>]

\* Spec: the session's life and the focus context, with settings changes and
\* the executable lookup.  The focus retry timers are registered and never
\* fire here: FocusTimerFire writes only focusAttempts, focusTimer, issued and
\* lastOp, and no other action reads focusAttempts or focusTimer.
Init ==
    /\ InitWith(CoreSettings)
    /\ OneFolder
    /\ visible = AllVisible
    /\ foreignOpen
    /\ otherTabs

Next ==
    \/ ToggleCreate
    \/ ToggleSuspend
    \/ \E c \in BOOLEAN : LookupDone(c)
    \/ ToggleHide
    \/ ToggleFocus
    \/ \E t \in OwnIds \cup {None, Foreign} : ActiveTerminalChanged(t)
    \/ ActiveEditorChanged
    \/ \E t \in OwnIds \cup {Foreign} : TerminalClosed(t)
    \/ HideTimerFire
    \/ ConfigChanged(CoreSettings)
    \/ TabsChanged

Spec == Init /\ [][Next]_vars

\* SpecPanels: the panel adjustments, for every panel configuration and every
\* initial visibility; the settings stay as they are and jjui is installed.
InitPanels ==
    /\ InitWith(PanelSettings)
    /\ OneFolder
    /\ execOnPath
    /\ ~foreignOpen
    /\ ~otherTabs

NextPanels ==
    \/ ToggleCreate
    \/ ToggleHide
    \/ ToggleFocus
    \/ \E t \in OwnIds \cup {None} : ActiveTerminalChanged(t)
    \/ ActiveEditorChanged
    \/ \E t \in OwnIds : TerminalClosed(t)
    \/ HideTimerFire
    \/ TabsChanged

SpecPanels == InitPanels /\ [][NextPanels]_vars

\* SpecFocus: the focus retry of createWindow, with the default settings.
InitFocus ==
    /\ InitWith(CoreSettings)
    /\ OneFolder
    /\ settings.jjuiPath = "/opt/jjui"
    /\ execOnPath
    /\ visible = AllVisible
    /\ foreignOpen
    /\ ~otherTabs

NextFocus ==
    \/ ToggleCreate
    \/ \E t \in OwnIds \cup {None, Foreign} : ActiveTerminalChanged(t)
    \/ \E t \in OwnIds \cup {Foreign} : TerminalClosed(t)
    \/ \E i \in OwnIds : FocusTimerFire(i)

SpecFocus == InitFocus /\ [][NextFocus]_vars

\* A timer set with setTimeout fires: the event loop runs every due callback.
SpecFocusFair == SpecFocus /\ \A i \in OwnIds : WF_vars(FocusTimerFire(i))

\* SpecHideFair: the panel specification from a fully visible window, with
\* every pending 200 ms timer of onHide firing in the end.
InitHide ==
    /\ InitPanels
    /\ visible = AllVisible

SpecHide == InitHide /\ [][NextPanels]_vars

SpecHideFair == SpecHide /\ WF_vars(HideTimerFire)

\* SpecFolders: the working directory of a created session, for every
\* workspace of up to MaxFolders folders, every placing of the marker
\* directory and every active document; the settings stay as they are and
\* the executable is configured.
Workspaces ==
    {[open |-> FALSE, jj |-> <<>>]}
    \cup {[open |-> TRUE, jj |-> jj] :
            jj \in UNION {[1..n -> BOOLEAN] : n \in 0..MaxFolders}}

InitFolders ==
    /\ InitWith(CoreSettings)
    /\ settings.jjuiPath = "/opt/jjui"
    /\ execOnPath
    /\ visible = AllVisible
    /\ ~foreignOpen
    /\ activeNotebook \in BOOLEAN
    /\ workspaceFolders \in Workspaces
    /\ docFolder \in 0..Len(workspaceFolders.jj)
    \* A folder holds the active document only if a document is active.
    /\ docFolder # 0 => (activeTextEditor \/ activeNotebook)

NextFolders ==
    \/ ToggleCreate
    \/ \E t \in OwnIds \cup {None} : ActiveTerminalChanged(t)
    \/ \E t \in OwnIds : TerminalClosed(t)

SpecFolders == InitFolders /\ [][NextFolders]_vars

\* ------------------------------------------------- vocabulary of the claims

\* The step is an invocation of the toggle command.
ToggleInvoked ==
    lastOp' \in {"toggleCreate", "toggleAssert", "toggleSuspend", "toggleFocus", "toggleHide"}

\* The step ends a toggle that found no session: at once, or after the lookup.
CreationEnded ==
    lastOp' \in {"toggleCreate", "toggleAssert", "resumeCreate", "resumeAssert"}

\* The host's state shows the session as focused.
SessionFocused == jjuiTerminal # None /\ ~activeTextEditor /\ activeTerminal = jjuiTerminal

\* The settings name an executable that resolves.
Resolvable(s) == IF s.jjuiPath = "" THEN execOnPath ELSE s.jjuiPath # "$UNSET"

\* The on-shown adjustments of configuration cfg show in visibility v.
ShownApplied(cfg, v) ==
    /\ cfg.panel \in {"hide", "hideRestore"} => ~v.panel
    /\ (~cfg.autoMaximizeWindow /\ cfg.secondarySidebar \in {"hide", "hideRestore"})
          => ~v.secondarySidebar
    /\ (~cfg.autoMaximizeWindow /\ cfg.sidebar \in {"hide", "hideRestore"}) => ~v.sidebar
    /\ (cfg.autoMaximizeWindow /\ cfg.sidebar # "keep") => ~v.sidebar

\* cmds holds the commands of exactly one run of onHide under cfg.
HiddenOnce(cfg, cmds) ==
    /\ Count(cmds, "toggleAuxiliaryBar") = (IF cfg.secondarySidebar = "hideRestore" THEN 1 ELSE 0)
    /\ Count(cmds, "togglePanel") = (IF cfg.panel = "hideRestore" THEN 1 ELSE 0)
    /\ Count(cmds, "evenEditorWidths") = (IF cfg.autoMaximizeWindow THEN 1 ELSE 0)
    /\ Count(cmds, "toggleSidebarVisibility") = 0

\* ------------------------------------------------------------------ claims

\* C1: in every reachable state every terminal the controller created and the
\* host has not reported closed is the one the session handle refers to, also
\* when a toggle is delivered while an earlier one is suspended in the lookup.
C1_OneOwnTerminal ==
    \A t \in OwnIds : termState[t] \in {"open", "disposed"} => t = jjuiTerminal

\* C2: a toggle invoked with no session, no creation in flight and a resolvable
\* executable ends, at once or after the lookup it alone waits for, with a new
\* open terminal as the session and the on-shown adjustments of the live
\* settings applied; and a focus notification that shows the session as the
\* active terminal with no text editor active publishes the flag as true.
C2_CreateShowsAndFlags ==
    [][/\ ( /\ CreationEnded
            /\ jjuiTerminal = None
            /\ Resolvable(settings)
            /\ \/ lastOp' \in {"toggleCreate", "toggleAssert"} /\ Suspended = 0
               \/ lastOp' \in {"resumeCreate", "resumeAssert"}
                  /\ suspendedCurrent /\ Suspended = 1 /\ settings = globalConfigJSON )
          => /\ jjuiTerminal' \in OwnIds
             /\ termState[jjuiTerminal'] = "none"
             /\ termState'[jjuiTerminal'] = "open"
             /\ Count(issued', "createTerminal") = 1
             /\ Count(issued', "show") = 1
             /\ globalConfigJSON' = settings
             /\ ShownApplied(settings, visible')
       /\ ( /\ lastOp' \in {"activeTerminalChanged", "activeEditorChanged"}
            /\ jjuiTerminal # None
            /\ activeTerminal' = jjuiTerminal
            /\ ~activeTextEditor' )
          => contextFlag'
      ]_vars

\* C2 witness: the first toggle created the session and the host's report of
\* it as the active terminal published the flag as true.
C2_Witness ==
    /\ phase = "shown"
    /\ Resolvable(settings)
    /\ globalConfig.jjuiPath # ""
    /\ lastOp = "activeTerminalChanged"
    /\ SessionFocused
    /\ contextFlag

\* C3: when the first toggle created the session and the second, invoked
\* with the session focused and exactly one tab open, disposed it, then once
\* the host has reported the closure and a terminal other than the closed one
\* as the active one, the session handle is absent and the published flag is
\* false.
C3_DisposeClearsFlag ==
    ( /\ phase = "disposed"
      /\ \A t \in OwnIds : termState[t] # "disposed"
      /\ lastOp = "activeTerminalChanged" )
    => (jjuiTerminal = None /\ ~contextFlag)

\* C4: a toggle invoked with a session that is not focused shows that
\* terminal, applies the on-shown adjustments, creates no terminal and leaves
\* the session handle as it was.
C4_FocusKeepsSession ==
    [][( /\ ToggleInvoked
         /\ jjuiTerminal # None
         /\ ~SessionFocused )
       => /\ jjuiTerminal' = jjuiTerminal
          /\ termState' = termState
          /\ closeListeners' = closeListeners
          /\ Count(issued', "show") = 1
          /\ Count(issued', "createTerminal") = 0
          /\ Count(issued', "dispose") = 0
          /\ ShownApplied(globalConfig, visible')
      ]_vars

\* C4 witness: a toggle has brought an existing, unfocused session to the
\* foreground.
C4_Witness ==
    /\ lastOp = "toggleFocus"
    /\ jjuiTerminal # None
    /\ termState[jjuiTerminal] = "open"
    /\ activeTextEditor
    /\ issued[1] = "show"

\* C5: a toggle invoked with the session focused while more than one tab is
\* open (another tab, or a second open terminal of the controller) asks for
\* the previously used editor, disposes nothing and leaves the terminals and
\* the session handle as they were.
C5_HideKeepsSessionAlive ==
    [][( /\ ToggleInvoked
         /\ SessionFocused
         /\ otherTabs \/ Cardinality({t \in OwnIds : termState[t] = "open"}) > 1 )
       => /\ issued'[1] = "openPreviousRecentlyUsedEditorInGroup"
          /\ Count(issued', "dispose") = 0
          /\ termState' = termState
          /\ jjuiTerminal' = jjuiTerminal
      ]_vars

\* C5 witness: the session was hidden with another tab open and is still open.
C5_Witness ==
    /\ lastOp = "toggleHide"
    /\ otherTabs
    /\ jjuiTerminal # None
    /\ termState[jjuiTerminal] = "open"
    /\ issued[1] = "openPreviousRecentlyUsedEditorInGroup"

\* C6: after the first toggle created the session and the second, invoked
\* with the session focused and one tab open, disposed it, and the host has
\* reported the closure, no session is left and the bottom panel and the
\* secondary sidebar are as visible as at activation.  (Read in the code's
\* favour: an element on `hide` is meant to stay closed and is not compared,
\* and the case of several tabs, where Hide keeps the session, is left out.)
C6_TogglePairRestores ==
    (phase = "disposed" /\ \A t \in OwnIds : termState[t] # "disposed")
    => /\ jjuiTerminal = None
       /\ globalConfig.panel # "hide" => visible.panel = visible0.panel
       /\ globalConfig.secondarySidebar # "hide"
            => visible.secondarySidebar = visible0.secondarySidebar

\* C7: with no jjuiPath configured and jjui not on the PATH, every failed
\* lookup shows the error message, and a toggle invoked with no session
\* creates no terminal, leaves the session handle absent and issues no panel
\* command.
C7_NoExecutableNoSession ==
    [][/\ ( /\ lastOp' \in {"resumeCreate", "resumeAssert"}
            /\ ~execOnPath )
          => Count(issued', "showErrorMessage") = 1
       /\ ( /\ ToggleInvoked
            /\ jjuiTerminal = None
            /\ settings.jjuiPath = ""
            /\ ~execOnPath )
          => /\ jjuiTerminal' = None
             /\ termState' = termState
             /\ visible' = visible
             /\ Count(issued', "createTerminal") = 0
      ]_vars

\* C8: after every active-editor-changed and every active-terminal-changed
\* notification the published flag is: no text editor is active and the
\* active terminal is the stored session, of the state the callback saw.
C8_FlagIsWindowFocused ==
    lastOp \in {"activeTerminalChanged", "activeEditorChanged"}
    => /\ contextFlag = (~activeTextEditor /\ activeTerminal = jjuiTerminal)
       /\ issued = <<"setContext">>

\* C8 witness: a notification published the flag as false because a text
\* editor is active although the session is the active terminal.
C8_Witness ==
    /\ lastOp = "activeEditorChanged"
    /\ jjuiTerminal # None
    /\ activeTerminal = jjuiTerminal
    /\ activeTextEditor
    /\ ~contextFlag

\* The terminal whose closure the step reports.
ClosedNow(t) ==
    IF t = Foreign THEN foreignOpen /\ ~foreignOpen'
    ELSE termState[t] # "closed" /\ termState'[t] = "closed"

\* C9: the reported closure of the terminal that is the session clears the
\* handle and runs onHide exactly once, however many closure listeners are
\* registered; the closure of any other terminal leaves the handle and the
\* panels alone, issues nothing and starts no timer.
C9_ClosureRunsOnce ==
    [][\A t \in OwnIds \cup {Foreign} :
         (lastOp' = "terminalClosed" /\ ClosedNow(t))
         => IF t = jjuiTerminal
            THEN /\ jjuiTerminal' = None
                 /\ HiddenOnce(globalConfig, issued')
                 /\ hideTimers' = hideTimers + 1
            ELSE /\ jjuiTerminal' = jjuiTerminal
                 /\ issued' = <<>>
                 /\ hideTimers' = hideTimers
                 /\ visible' = visible
      ]_vars

\* C9 witness: the session of a second create/close cycle was reported
\* closed with two listeners registered, and onHide ran once.
C9_Witness ==
    /\ lastOp = "terminalClosed"
    /\ closeListeners = 2
    /\ termState = [t \in OwnIds |-> IF t <= 2 THEN "closed" ELSE "none"]
    /\ jjuiTerminal = None
    /\ issued = <<"togglePanel">>

\* The step is the firing of the focus retry timer of creation i.
RetryFired(i) ==
    /\ lastOp' = "focusTimer"
    /\ focusTimer[i]
    /\ focusTimer'[i] # focusTimer[i] \/ focusAttempts'[i] # focusAttempts[i]

\* C10 as claimed: the retry of one creation issues at most MaxFocusAttempts
\* focus requests when polling and exactly one, when its timer fires, with the
\* fixed delay; and in either version a retry tick at which the host reports
\* the session as the active terminal issues no focus request.
C10_NoRefocusOnceActive ==
    [][\A i \in OwnIds :
         /\ focusAttempts'[i] <= (IF variant = "poll" THEN MaxFocusAttempts ELSE 1)
         /\ (RetryFired(i) /\ variant = "fixed") => focusAttempts'[i] = 1
         /\ (RetryFired(i) /\ jjuiTerminal # None /\ activeTerminal = jjuiTerminal)
              => Count(issued', "terminal.focus") = 0
      ]_vars

\* C10 as amended: the retry of one creation issues at most MaxFocusAttempts
\* focus requests when polling and at most one with the fixed delay.  A poll
\* tick that finds the active terminal equal to the handle issues nothing and
\* ends the retry; any other poll tick either issues one request and counts
\* it, or ends the retry with the count at the limit.  The fixed-delay timer
\* fires once and issues its request iff a session handle is present then,
\* active or not.  Every pending retry timer is eventually no longer pending.
C10_BoundedRetry ==
    /\ [][\A i \in OwnIds :
            /\ focusAttempts'[i] <= (IF variant = "poll" THEN MaxFocusAttempts ELSE 1)
            /\ RetryFired(i) =>
                 IF variant = "poll"
                 THEN IF activeTerminal = jjuiTerminal
                      THEN /\ issued' = <<>>
                           /\ ~focusTimer'[i]
                           /\ focusAttempts'[i] = focusAttempts[i]
                      ELSE \/ /\ issued' = <<"terminal.focus">>
                              /\ focusTimer'[i]
                              /\ focusAttempts'[i] = focusAttempts[i] + 1
                           \/ /\ issued' = <<>>
                              /\ ~focusTimer'[i]
                              /\ focusAttempts[i] = MaxFocusAttempts
                 ELSE /\ ~focusTimer'[i]
                      /\ Count(issued', "terminal.focus") = (IF jjuiTerminal # None THEN 1 ELSE 0)
         ]_vars
    /\ \A i \in OwnIds : focusTimer[i] ~> ~focusTimer[i]

\* C10 witness: a polling retry has issued its MaxFocusAttempts requests and
\* ended without the session ever being reported active.
C10_Witness ==
    /\ variant = "poll"
    /\ lastOp = "focusTimer"
    /\ focusAttempts[1] = MaxFocusAttempts
    /\ ~focusTimer[1]
    /\ jjuiTerminal = 1
    /\ activeTerminal # 1

\* The three UI elements onShown and onHide act on.
Elements == {"sidebar", "panel", "secondarySidebar"}

\* C11: in every reachable state each element whose configured behaviour is
\* keep is as visible as it was at activation, whatever toggles and terminal
\* closures have happened, for both values of auto-maximize and every initial
\* visibility.
C11_KeepLeavesAsIs ==
    \A e \in Elements : globalConfig[e] = "keep" => visible[e] = visible0[e]

\* C12: every step that creates a session leaves the cached serialized
\* snapshot equal to the live settings and the cached configuration equal to
\* them in every field but the resolved path; and a toggle that finds the
\* snapshot stale while the live settings name a resolvable executable
\* neither throws nor shows an error message.
C12_ReloadBeforeCreate ==
    [][/\ lastOp' \in {"toggleCreate", "resumeCreate"}
          => /\ globalConfigJSON' = LoadConfig(settings')
             /\ globalConfig' =
                  [LoadConfig(settings') EXCEPT !.jjuiPath = globalConfig'.jjuiPath]
       /\ ( /\ ToggleInvoked
            /\ jjuiTerminal = None
            /\ Suspended = 0
            /\ LoadConfig(settings) # globalConfigJSON
            /\ Resolvable(settings) )
          => /\ lastOp' # "toggleAssert"
             /\ Count(issued', "showErrorMessage") = 0
      ]_vars

\* The working directory the resolution order names for the host's state: the
\* folder that holds the active document or notebook, else the first folder
\* with the marker directory, else the first folder, else the home directory.
ExpectedFolder ==
    IF (activeTextEditor \/ activeNotebook) /\ docFolder # 0 THEN docFolder
    ELSE IF workspaceFolders.open /\ FirstMarked(workspaceFolders.jj) # 0
         THEN FirstMarked(workspaceFolders.jj)
    ELSE IF workspaceFolders.open /\ Len(workspaceFolders.jj) > 0 THEN 1
    ELSE HomeDir

\* C13: every toggle invoked with no session and a configured executable
\* creates the terminal in the directory the resolution order names, for
\* every active document, every list of workspace folders and every placing
\* of the marker directory.
C13_FolderResolution ==
    [][(ToggleInvoked /\ jjuiTerminal = None)
       => /\ lastOp' = "toggleCreate"
          /\ cwd' = ExpectedFolder
      ]_vars

\* C14: the reported closure of a terminal that a toggle disposed (its
\* on-hidden adjustments ran in that toggle) issues no command, starts no
\* editor-focus timer and leaves the panels alone.
C14_HideAppliedOnce ==
    [][\A t \in OwnIds :
         ( /\ lastOp' = "terminalClosed"
           /\ termState[t] = "disposed"
           /\ termState'[t] = "closed" )
         => /\ issued' = <<>>
            /\ hideTimers' = hideTimers
            /\ visible' = visible
      ]_vars

\* C15: after every focus-change notification received with the session
\* handle absent the published flag is false, also with no text editor and
\* no terminal active.
C15_NoSessionNoFlag ==
    ( /\ lastOp \in {"activeTerminalChanged", "activeEditorChanged"}
      /\ jjuiTerminal = None )
    => ~contextFlag

\* C16: after every step the session handle, when present, refers to an open
\* terminal (neither disposed nor closed); and a toggle invoked while the
\* handle refers to a disposed terminal shows nothing and leaves the panels
\* alone.
C16_HandleIsLive ==
    [][/\ jjuiTerminal' # None => termState'[jjuiTerminal'] = "open"
       /\ ( /\ ToggleInvoked
            /\ jjuiTerminal # None
            /\ termState[jjuiTerminal] = "disposed" )
          => /\ Count(issued', "show") = 0
             /\ visible' = visible
      ]_vars

\* C17: a focus retry timer that fires after the terminal of its creation
\* was reported closed, with the session handle absent, issues no focus
\* request, whatever terminal the host reports as active.
C17_NoFocusAfterSessionGone ==
    [][\A i \in OwnIds :
         ( /\ RetryFired(i)
           /\ termState[i] = "closed"
           /\ jjuiTerminal = None )
         => Count(issued', "terminal.focus") = 0
      ]_vars

\* C18: an editor-focus timer of onHide that fires right after a toggle
\* showed or created the session, with that session still open, issues no
\* editor-group focus request.
C18_NoFocusStealFromShown ==
    [][( /\ lastOp \in {"toggleFocus", "toggleCreate", "resumeCreate"}
         /\ jjuiTerminal # None
         /\ termState[jjuiTerminal] = "open"
         /\ lastOp' = "hideTimer" )
       => Count(issued', "focusActiveEditorGroup") = 0
      ]_vars

\* Command b comes right after command a in cs.
Follows(cs, a, b) == \E i \in 1..(Len(cs) - 1) : cs[i] = a /\ cs[i + 1] = b

\* C19: every toggle that runs onShown issues, by the cached configuration
\* alone: closePanel iff the panel is on hide or hideRestore, for both values
\* of auto-maximize; without auto-maximize, closeSidebar and closeAuxiliaryBar
\* iff the respective element is on hide or hideRestore, and no maximize; with
\* auto-maximize, the maximize command once, followed at once by the sidebar
\* toggle iff the sidebar is on keep, and no single close of either sidebar.
C19_OnShownCommandSet ==
    [][lastOp' \in {"toggleCreate", "resumeCreate", "toggleFocus"}
       => LET cfg == globalConfig'
              cs == issued'
              N(c) == Count(cs, c)
              B(b) == IF b THEN 1 ELSE 0
          IN /\ N("closePanel") = B(cfg.panel \in {"hide", "hideRestore"})
             /\ IF cfg.autoMaximizeWindow
                THEN /\ N("maximizeEditorHideSidebar") = 1
                     /\ N("closeSidebar") = 0
                     /\ N("closeAuxiliaryBar") = 0
                     /\ N("toggleSidebarVisibility") = B(cfg.sidebar = "keep")
                     /\ cfg.sidebar = "keep"
                          => Follows(cs, "maximizeEditorHideSidebar",
                                     "toggleSidebarVisibility")
                ELSE /\ N("maximizeEditorHideSidebar") = 0
                     /\ N("toggleSidebarVisibility") = 0
                     /\ N("closeSidebar") = B(cfg.sidebar \in {"hide", "hideRestore"})
                     /\ N("closeAuxiliaryBar")
                          = B(cfg.secondarySidebar \in {"hide", "hideRestore"})
      ]_vars

\* C19 witness: a toggle showed an existing session under auto-maximize with
\* the sidebar on keep and the panel on hideRestore: maximize, sidebar
\* toggle, closePanel.
C19_Witness ==
    /\ lastOp = "toggleFocus"
    /\ globalConfig.autoMaximizeWindow
    /\ globalConfig.sidebar = "keep"
    /\ globalConfig.panel = "hideRestore"
    /\ issued = <<"show", "maximizeEditorHideSidebar", "toggleSidebarVisibility",
                  "closePanel">>

\* The step holds one run of onHide: a toggle of the focused session, or the
\* reported closure of the terminal that is the session.
HideRun ==
    \/ lastOp' = "toggleHide"
    \/ lastOp' = "terminalClosed" /\ jjuiTerminal # None /\ jjuiTerminal' = None

\* C20: every run of onHide issues toggleAuxiliaryBar and togglePanel iff the
\* element is on hideRestore, never the sidebar toggle, evenEditorWidths iff
\* auto-maximize is on, and sets one timer without issuing the editor-group
\* focus request itself; no other step sets such a timer; a timer that fires
\* issues exactly that one request, in a later step than the commands of its
\* run; and pending timers do fire.
C20_OnHideCommandSet ==
    /\ [][/\ HideRun
             => /\ HiddenOnce(globalConfig, issued')
                /\ Count(issued', "focusActiveEditorGroup") = 0
                /\ hideTimers' = hideTimers + 1
          /\ ~HideRun => hideTimers' <= hideTimers
          /\ lastOp' = "hideTimer"
             => /\ issued' = <<"focusActiveEditorGroup">>
                /\ hideTimers' = hideTimers - 1
          /\ Count(issued', "focusActiveEditorGroup") > 0 => lastOp' = "hideTimer"
        ]_vars
    /\ (hideTimers > 0) ~> (lastOp = "hideTimer")

\* C20 witness: a toggle hid the session, another tab being open, with both
\* restorable elements on hideRestore and auto-maximize on, and set one timer.
C20_Witness ==
    /\ lastOp = "toggleHide"
    /\ hideTimers = 1
    /\ issued = <<"openPreviousRecentlyUsedEditorInGroup", "toggleAuxiliaryBar",
                  "togglePanel", "evenEditorWidths">>

====
